---- MODULE Spec2Model ----
(***************************************************************************)
(* A model of the number_poker game service (GameService): one game        *)
(* session, its players, the deck, the betting / dealing / equation phases *)
(* and the resolution of a round.                                          *)
(*                                                                         *)
(* Every handler of the service is an operator from a context to the set   *)
(* of contexts it can end in (a set, because dealing pops a shuffled deck  *)
(* and the automated player draws random numbers).  A context is the game  *)
(* state together with what the handler did besides: the broadcasts it     *)
(* sent, the automated turns it scheduled, and whether it threw or never   *)
(* returned.                                                               *)
(***************************************************************************)
EXTENDS Integers, Sequences, FiniteSets, TLC

VARIABLES game, botTimers, blocked, round, drops, last, limits, shuffling, games

vars == <<game, botTimers, blocked, round, drops, last, limits, shuffling, games>>

---------------------------------------------------------------------------
(* Bounds of the model *)

\* players in the session (humans, the automated player and spectators)
MaxPlayers == 2
\* operation cards (multiply, squareRoot) met among the cards popped in a round
MaxOpDraws == 1

\* operation cards a round of SpecDeal may turn up
MaxDealOps == 3

\* session ids that Math.random() may produce in createGame (0..MaxGameIds-1)
MaxGameIds == 4

\* bet amounts offered to performAction are the multiples 0..MaxBetUnits of 500
MaxBetUnits == 3
\* startGame requests served in one session
MaxRounds == 1
\* handleBotTurn delays that may be pending at once
MaxBotTimers == 2
\* the same for the sessions of SpecTable, which meet no operation card
TablePlayers == 3
TableRounds == 2
\* disconnections reported in one session of SpecTable
MaxDisconnects == 1
\* seats of SpecCrowd
CrowdPlayers == 12
\* iterations of a shuffle in which Math.random() is left a choice
MaxShuffleDraws == 5
\* the bet of the round that SpecResolve resolves
StakeUnit == 5

---------------------------------------------------------------------------
(* Program constants *)

StartingChips == 1000
MaxCardValue == 10
OperationCopies == 4
SmallTarget == 1
BigTarget == 20

Colors == <<"gold", "silver", "bronze", "dark">>

HumanIds == <<"p1", "p2", "p3", "p4", "p5", "p6", "p7", "p8", "p9", "p10", "p11", "p12",
             "p13">>
BotId == "bot-1"
NoPlayer == ""

IsBot(id) == id = BotId

Phases == <<"waiting", "preflop", "dealing1", "betting1", "dealing2",
            "betting2", "equation", "ended">>

PhaseRank(ph) == CHOOSE i \in 1..Len(Phases) : Phases[i] = ph

---------------------------------------------------------------------------
(* Generic helpers *)

Range(s) == {s[i] : i \in 1..Len(s)}

RECURSIVE SumSeq(_)
SumSeq(s) == IF s = <<>> THEN 0 ELSE Head(s) + SumSeq(Tail(s))

MinOf(S) == CHOOSE x \in S : \A y \in S : x <= y
MaxOf(S) == CHOOSE x \in S : \A y \in S : x >= y

\* the sequence s without its i-th element (Array.splice(i, 1))
RemoveAt(s, i) == [k \in 1..(Len(s) - 1) |-> IF k < i THEN s[k] ELSE s[k + 1]]

\* the first index among found, 0 when there is none (Array.findIndex,
\* Array.find): found is the set of the indices that pass the test
FirstIndex(found) == IF found = {} THEN 0 ELSE MinOf(found)

---------------------------------------------------------------------------
(* Cards and the deck *)

NumberCard(v, c) ==
  [type |-> "number", value |-> v, color |-> c, operation |-> "none"]
OperationCard(op) ==
  [type |-> "operation", value |-> -1, color |-> "none", operation |-> op]

IsNumber(card) == card.type = "number"
IsMultiply(card) == card.type = "operation" /\ card.operation = "multiply"

\* cards.filter(c => c.type === 'number')
NumberCards(cards) == SelectSeq(cards, IsNumber)
NumberCount(p) == Len(NumberCards(p.cards))

StartingOperationCards == <<"add", "subtract", "divide">>

\* The shuffled deck is kept as what is left of each kind.  A pop takes any
\* kind that is left, which is what popping a uniformly shuffled array does;
\* the number cards come in one fixed order (the k-th number card popped has
\* value k mod 11 and color k mod 4, a bijection onto the 44 number cards).
createDeck ==
  [number |-> (MaxCardValue + 1) * Len(Colors),
   multiply |-> OperationCopies,
   squareRoot |-> OperationCopies]

DeckLength(deck) == deck.number + deck.multiply + deck.squareRoot

NumbersPopped(deck) == (MaxCardValue + 1) * Len(Colors) - deck.number
OpsPopped(deck) == 2 * OperationCopies - deck.multiply - deck.squareRoot

NextNumberCard(deck) ==
  NumberCard(NumbersPopped(deck) % (MaxCardValue + 1),
             Colors[(NumbersPopped(deck) % Len(Colors)) + 1])

\* the kinds of card that can be on top of the deck
\* (operation cards turn up while fewer than ops of them are out of the deck)
PopChoices(deck, ops) ==
  {k \in {"number"} : deck.number > 0}
  \cup {k \in {"multiply"} :
          deck.multiply > 0 /\ (OpsPopped(deck) < ops \/ deck.number = 0)}
  \cup {k \in {"squareRoot"} :
          deck.squareRoot > 0 /\ (OpsPopped(deck) < ops \/ deck.number = 0)}

TopCard(deck, kind) ==
  IF kind = "number" THEN NextNumberCard(deck) ELSE OperationCard(kind)

\* deck.pop() of a card of the given kind
Pop(deck, kind) == [deck EXCEPT ![kind] = @ - 1]

---------------------------------------------------------------------------
(* Rational numbers: the values of equations.  <<n, d>> with d > 0, reduced. *)

Abs(x) == IF x < 0 THEN -x ELSE x

RECURSIVE Gcd(_, _)
Gcd(a, b) == IF b = 0 THEN a ELSE Gcd(b, a % b)

Rat(n, d) ==
  LET s == IF d < 0 THEN -1 ELSE 1
      g == Gcd(Abs(n), Abs(d))
  IN  <<(s * n) \div g, (s * d) \div g>>

RatInt(k) == <<k, 1>>
RatAdd(a, b) == Rat(a[1] * b[2] + b[1] * a[2], a[2] * b[2])
RatSub(a, b) == Rat(a[1] * b[2] - b[1] * a[2], a[2] * b[2])
RatMul(a, b) == Rat(a[1] * b[1], a[2] * b[2])
\* only for b # 0
RatDiv(a, b) == Rat(a[1] * b[2], a[2] * b[1])
RatNeg(a) == <<-a[1], a[2]>>
RatAbs(a) == <<Abs(a[1]), a[2]>>
RatLess(a, b) == a[1] * b[2] < b[1] * a[2]

---------------------------------------------------------------------------
(* safeEval: an equation string is a sequence of atoms: the digits, the     *)
(* operator characters, the parentheses, the word sqrt, and any other      *)
(* character (" " is white space).                                         *)

Digits == <<"0", "1", "2", "3", "4", "5", "6", "7", "8", "9">>
DigitValue(a) == (CHOOSE k \in 1..10 : Digits[k] = a) - 1
IsDigit(a) == a \in Range(Digits)
IsOperatorAtom(a) == a \in {"+", "-", "*", "/"}
\* the separators of expr.split(/(sqrt|[\+\-\*\/\(\)])/)
IsSeparator(a) == a = "sqrt" \/ IsOperatorAtom(a) \/ a \in {"(", ")"}

\* String.trim()
RECURSIVE TrimLeft(_)
TrimLeft(s) == IF s # <<>> /\ Head(s) = " " THEN TrimLeft(Tail(s)) ELSE s
RECURSIVE TrimRight(_)
TrimRight(s) ==
  IF s # <<>> /\ s[Len(s)] = " " THEN TrimRight(SubSeq(s, 1, Len(s) - 1)) ELSE s
Trim(s) == TrimRight(TrimLeft(s))

\* /^\d+$/.test(part)
AllDigits(part) == part # <<>> /\ \A i \in 1..Len(part) : IsDigit(part[i])

\* expr.split(...): the runs between separators and the separators themselves
RECURSIVE SplitFrom(_, _, _, _)
SplitFrom(expr, i, run, acc) ==
  IF i > Len(expr) THEN Append(acc, run)
  ELSE IF IsSeparator(expr[i])
       THEN SplitFrom(expr, i + 1, <<>>, acc \o <<run, <<expr[i]>>>>)
       ELSE SplitFrom(expr, i + 1, Append(run, expr[i]), acc)

NonBlank(part) == Trim(part) # <<>>

\* .filter(p => p.trim())
SplitParts(expr) == SelectSeq(SplitFrom(expr, 1, <<>>, <<>>), NonBlank)

\* The token loop of safeEval.  A token is a number (its digits), an operator,
\* a closed square root Math.sqrt(<digits>), or an open one Math.sqrt( whose
\* parenthesis nothing closes; parts of any other form are skipped.  The
\* result is <<FALSE, ..>> where the loop returns null.
NumToken(ds) == [t |-> "number", digits |-> ds, op |-> "none"]
OpToken(o) == [t |-> "operator", digits |-> <<>>, op |-> o]
SqrtToken(ds) == [t |-> "sqrt", digits |-> ds, op |-> "none"]
SqrtOpenToken == [t |-> "sqrtOpen", digits |-> <<>>, op |-> "none"]

RECURSIVE TokenLoop(_, _, _)
TokenLoop(parts, i, tokens) ==
  IF i > Len(parts) THEN <<TRUE, tokens>>
  ELSE LET part == Trim(parts[i])
           hasNext == i + 1 <= Len(parts)
           nextPart == IF hasNext THEN Trim(parts[i + 1]) ELSE <<>>
       IN  IF AllDigits(part)
           THEN TokenLoop(parts, i + 1, Append(tokens, NumToken(part)))
           ELSE IF part = <<"sqrt">>
           THEN IF hasNext /\ Head(nextPart) = "("
                THEN TokenLoop(parts, i + 2, Append(tokens, SqrtOpenToken))
                ELSE IF hasNext /\ AllDigits(nextPart)
                THEN TokenLoop(parts, i + 2, Append(tokens, SqrtToken(nextPart)))
                ELSE <<FALSE, tokens>>
           ELSE IF Len(part) = 1 /\ IsOperatorAtom(part[1])
           THEN TokenLoop(parts, i + 1, Append(tokens, OpToken(part[1])))
           ELSE TokenLoop(parts, i + 1, tokens)

\* The string handed to the Function constructor is the concatenation of the
\* token values.  JsItems reads it as JavaScript does: adjacent number tokens
\* run together into one literal, a literal or a closing parenthesis directly
\* followed by an operand is a syntax error, and an open Math.sqrt( is never
\* closed.  The result is <<FALSE, ..>> for a syntax error.
RECURSIVE JsItems(_, _, _)
JsItems(tokens, i, items) ==
  IF i > Len(tokens) THEN <<TRUE, items>>
  ELSE LET tok == tokens[i]
           prev == IF items = <<>> THEN "none" ELSE items[Len(items)].t
       IN  IF tok.t = "sqrtOpen" THEN <<FALSE, items>>
           ELSE IF tok.t = "operator" THEN JsItems(tokens, i + 1, Append(items, tok))
           ELSE IF tok.t = "sqrt"
           THEN IF prev \in {"number", "sqrt"} THEN <<FALSE, items>>
                ELSE JsItems(tokens, i + 1, Append(items, tok))
           ELSE IF prev = "sqrt" THEN <<FALSE, items>>
           ELSE IF prev = "number"
           THEN JsItems(tokens, i + 1,
                        [items EXCEPT ![Len(items)].digits = @ \o tok.digits])
           ELSE JsItems(tokens, i + 1, Append(items, tok))

RECURSIVE DigitsValue(_, _)
DigitsValue(ds, base) ==
  IF ds = <<>> THEN 0
  ELSE DigitsValue(SubSeq(ds, 1, Len(ds) - 1), base) * base + DigitValue(ds[Len(ds)])

\* a numeric literal of sloppy-mode JavaScript: a leading 0 followed by octal
\* digits only is a legacy octal literal, any other digit run is decimal
LiteralValue(ds) ==
  IF Len(ds) > 1 /\ ds[1] = "0" /\ \A i \in 1..Len(ds) : DigitValue(ds[i]) < 8
  THEN DigitsValue(ds, 8)
  ELSE DigitsValue(ds, 10)

IsSquare(n) == \E r \in 0..n : r * r = n
\* Math.sqrt on a perfect square (the model's equations use no other)
IntSqrt(n) == CHOOSE r \in 0..n : r * r = n

ItemValue(item) ==
  IF item.t = "sqrt" THEN RatInt(IntSqrt(LiteralValue(item.digits)))
  ELSE RatInt(LiteralValue(item.digits))

IsOp(items, i, ops) ==
  i <= Len(items) /\ items[i].t = "operator" /\ items[i].op \in ops

\* ++ and -- are single tokens of JavaScript and need an assignable operand
DoubleSign(items) ==
  \E i \in 1..(Len(items) - 1) :
    \/ IsOp(items, i, {"+"}) /\ IsOp(items, i + 1, {"+"})
    \/ IsOp(items, i, {"-"}) /\ IsOp(items, i + 1, {"-"})

\* Parsers give <<ok, value, next index>>.  A division by zero makes the
\* result non-finite whatever follows, which safeEval turns into null as it
\* does a syntax error: both are <<FALSE, ..>> here.
ParseFail == <<FALSE, <<0, 1>>, 0>>

RECURSIVE ParseUnary(_, _)
ParseUnary(items, i) ==
  IF i > Len(items) THEN ParseFail
  ELSE IF IsOp(items, i, {"+"}) THEN ParseUnary(items, i + 1)
  ELSE IF IsOp(items, i, {"-"})
  THEN LET Negated(r) == IF r[1] THEN <<TRUE, RatNeg(r[2]), r[3]>> ELSE ParseFail
       IN  Negated(ParseUnary(items, i + 1))
  ELSE IF items[i].t = "operator" THEN ParseFail
  ELSE <<TRUE, ItemValue(items[i]), i + 1>>

RECURSIVE MultLoop(_, _, _)
MultLoop(items, acc, i) ==
  IF ~IsOp(items, i, {"*", "/"}) THEN <<TRUE, acc, i>>
  ELSE LET With(r) ==
             IF ~r[1] THEN ParseFail
             ELSE IF items[i].op = "*" THEN MultLoop(items, RatMul(acc, r[2]), r[3])
             ELSE IF r[2][1] = 0 THEN ParseFail
             ELSE MultLoop(items, RatDiv(acc, r[2]), r[3])
       IN  With(ParseUnary(items, i + 1))

ParseMult(items, i) ==
  LET From(r) == IF r[1] THEN MultLoop(items, r[2], r[3]) ELSE ParseFail
  IN  From(ParseUnary(items, i))

RECURSIVE AddLoop(_, _, _)
AddLoop(items, acc, i) ==
  IF ~IsOp(items, i, {"+", "-"}) THEN <<TRUE, acc, i>>
  ELSE LET With(r) ==
             IF ~r[1] THEN ParseFail
             ELSE IF items[i].op = "+" THEN AddLoop(items, RatAdd(acc, r[2]), r[3])
             ELSE AddLoop(items, RatSub(acc, r[2]), r[3])
       IN  With(ParseMult(items, i + 1))

ParseExpression(items) ==
  LET Whole(s) == IF s[1] /\ s[3] = Len(items) + 1 THEN s ELSE ParseFail
      From(r) == IF r[1] THEN Whole(AddLoop(items, r[2], r[3])) ELSE ParseFail
  IN  From(ParseMult(items, 1))

Null == [isNumber |-> FALSE, value |-> <<0, 1>>]
Number(v) == [isNumber |-> TRUE, value |-> v]

\* safeEval(expr): a number, or null
safeEval(expr) ==
  LET Result(r) == IF r[1] THEN Number(r[2]) ELSE Null
      Evaluate(items) ==
        IF items[1] /\ ~DoubleSign(items[2])
        THEN Result(ParseExpression(items[2])) ELSE Null
      Build(toks) ==
        IF ~toks[1] \/ toks[2] = <<>> THEN Null
        ELSE Evaluate(JsItems(toks[2], 1, <<>>))
  IN  Build(TokenLoop(SplitParts(expr), 1, <<>>))

\* The equations the model evaluates stay where the reading above is exact:
\* no ** (exponent), // or /* (comments) in the string, and square roots of
\* perfect squares only.
InEvalDomain(expr) ==
  LET toks == TokenLoop(SplitParts(expr), 1, <<>>)[2]
  IN  /\ \A i \in 1..(Len(toks) - 1) :
           ~(/\ toks[i].t = "operator" /\ toks[i + 1].t = "operator"
             /\ <<toks[i].op, toks[i + 1].op>> \in {<<"*", "*">>, <<"/", "/">>, <<"/", "*">>})
      /\ \A i \in 1..Len(toks) :
           toks[i].t = "sqrt" => IsSquare(LiteralValue(toks[i].digits))

---------------------------------------------------------------------------
(* Players *)

NoEquations == [small |-> <<>>, big |-> <<>>]

\* the player record joinGame and startGame build (id and chips apart)
NewPlayer(id, chips) ==
  [id |-> id, chips |-> chips, cards |-> <<>>,
   operationCards |-> StartingOperationCards,
   bet |-> 0, betType |-> "none", isActive |-> TRUE, isFolded |-> FALSE,
   isSquareRoot |-> FALSE, hasMultiply |-> FALSE,
   submittedEquations |-> NoEquations]

\* the spectator joinGame adds to a game under way
Spectator(id) ==
  [NewPlayer(id, 0) EXCEPT !.operationCards = <<>>,
                           !.isActive = FALSE, !.isFolded = TRUE]

\* game.players.findIndex(p => p.id === id), 0 when there is none
PlayerIndex(ps, id) ==
  IF \E i \in 1..Len(ps) : ps[i].id = id
  THEN MinOf({i \in 1..Len(ps) : ps[i].id = id})
  ELSE 0

\* the indices of a set in increasing order
RECURSIVE SortedSeq(_)
SortedSeq(S) ==
  IF S = {} THEN <<>> ELSE <<MinOf(S)>> \o SortedSeq(S \ {MinOf(S)})

---------------------------------------------------------------------------
(* resolveEquationsAndDistributePot *)

ColorValue(c) ==
  CASE c = "dark" -> 0 [] c = "bronze" -> 1 [] c = "silver" -> 2 [] c = "gold" -> 3

ColorValues(p) ==
  {ColorValue(NumberCards(p.cards)[k].color) : k \in 1..NumberCount(p)}
\* Math.min(...) and Math.max(...) over the colors of the number cards held
\* (of no card: Infinity and -Infinity, here beyond every color value)
MinColor(p) == IF ColorValues(p) = {} THEN Len(Colors) ELSE MinOf(ColorValues(p))
MaxColor(p) == IF ColorValues(p) = {} THEN -1 ELSE MaxOf(ColorValues(p))

\* smallWinners.reduce((a, b) => aMinCard < bMinCard ? a : b)
RECURSIVE SmallTieBreak(_, _, _)
SmallTieBreak(ps, a, rest) ==
  IF rest = <<>> THEN a
  ELSE SmallTieBreak(ps,
         IF MinColor(ps[a]) < MinColor(ps[Head(rest)]) THEN a ELSE Head(rest),
         Tail(rest))

\* bigWinners.reduce((a, b) => aMaxCard > bMaxCard ? a : b)
RECURSIVE BigTieBreak(_, _, _)
BigTieBreak(ps, a, rest) ==
  IF rest = <<>> THEN a
  ELSE BigTieBreak(ps,
         IF MaxColor(ps[a]) > MaxColor(ps[Head(rest)]) THEN a ELSE Head(rest),
         Tail(rest))

\* entry.small / entry.big of a player: the value of the submitted equation
\* when the bet type asks for it, the equation is there and it evaluates
SmallResult(p) ==
  IF p.betType \in {"small", "both"} /\ p.submittedEquations.small # <<>>
  THEN safeEval(p.submittedEquations.small) ELSE Null
BigResult(p) ==
  IF p.betType \in {"big", "both"} /\ p.submittedEquations.big # <<>>
  THEN safeEval(p.submittedEquations.big) ELSE Null

Diff(r, target) == RatAbs(RatSub(r.value, RatInt(target)))

\* results: the entry of each player, computed once for the resolution
Results(ps) ==
  [i \in 1..Len(ps) |-> [small |-> SmallResult(ps[i]), big |-> BigResult(ps[i])]]

\* The indices of the players in `results`, and the winner of each target
\* after the tie-break (0 for null).
ResultIndices(ps) ==
  {i \in 1..Len(ps) : ~ps[i].isFolded /\ ps[i].betType # "none"}

SmallWinnerOf(ps, results) ==
  LET cand == {i \in ResultIndices(ps) : results[i].small.isNumber}
      best == {i \in cand : \A j \in cand :
                 ~RatLess(Diff(results[j].small, SmallTarget),
                          Diff(results[i].small, SmallTarget))}
      list == SortedSeq(best)
  IN  IF list = <<>> THEN 0 ELSE SmallTieBreak(ps, Head(list), Tail(list))

BigWinnerOf(ps, results) ==
  LET cand == {i \in ResultIndices(ps) : results[i].big.isNumber}
      best == {i \in cand : \A j \in cand :
                 ~RatLess(Diff(results[j].big, BigTarget),
                          Diff(results[i].big, BigTarget))}
      list == SortedSeq(best)
  IN  IF list = <<>> THEN 0 ELSE BigTieBreak(ps, Head(list), Tail(list))

\* the players who bet both and lost a target they have a result for
BothBetLosers(ps, results, sw, bw) ==
  {i \in ResultIndices(ps) :
     /\ ps[i].betType = "both"
     /\ \/ results[i].small.isNumber /\ sw # 0 /\ sw # i
        \/ results[i].big.isNumber /\ bw # 0 /\ bw # i}

AddChips(g, i, amount) == [g EXCEPT !.players[i].chips = @ + amount]
SetSmall(g, i) == [g EXCEPT !.winners.small = <<g.players[i].id>>]
SetBig(g, i) == [g EXCEPT !.winners.big = <<g.players[i].id>>]

\* Math.floor(pot / 2) and Math.ceil(pot / 2)
FloorHalf(pot) == pot \div 2
CeilHalf(pot) == pot - (pot \div 2)

\* the distribution of the pot (the pot is cleared by the caller)
DistributePot(g, sw, bw, losers) ==
  LET ps == g.players
      res == ResultIndices(ps)
      allSmall == \A i \in res : ps[i].betType = "small"
      allBig == \A i \in res : ps[i].betType = "big"
      paidSmall == IF sw # 0 THEN SetSmall(AddChips(g, sw, FloorHalf(g.pot)), sw) ELSE g
  IN  IF allSmall /\ sw # 0 THEN SetSmall(AddChips(g, sw, g.pot), sw)
      ELSE IF allBig /\ bw # 0 THEN SetBig(AddChips(g, bw, g.pot), bw)
      ELSE IF sw # 0 /\ bw # 0 /\ sw = bw
      THEN SetBig(SetSmall(AddChips(g, sw, g.pot), sw), bw)
      ELSE IF losers # {}
      THEN IF sw # 0 /\ sw \notin losers THEN SetSmall(AddChips(g, sw, g.pot), sw)
           ELSE IF bw # 0 /\ bw \notin losers THEN SetBig(AddChips(g, bw, g.pot), bw)
           ELSE g
      ELSE IF bw # 0 THEN SetBig(AddChips(paidSmall, bw, CeilHalf(g.pot)), bw)
           ELSE paidSmall

resolveWithoutClearingPot(g) ==
  LET Resolve(results) ==
        LET Distribute(sw, bw) ==
              DistributePot(g, sw, bw, BothBetLosers(g.players, results, sw, bw))
        IN  Distribute(SmallWinnerOf(g.players, results), BigWinnerOf(g.players, results))
  IN  Resolve(Results(g.players))

resolveEquationsAndDistributePot(g) ==
  LET Resolve(results) ==
        LET Distribute(sw, bw) ==
              DistributePot(g, sw, bw, BothBetLosers(g.players, results, sw, bw))
        IN  Distribute(SmallWinnerOf(g.players, results), BigWinnerOf(g.players, results))
  IN  [Resolve(Results(g.players)) EXCEPT !.pot = 0]

---------------------------------------------------------------------------
(* Contexts: the game a handler works on, the broadcasts it has sent        *)
(* (notes), the automated turns it has started (timers), and how it ended:  *)
(* halt is "" while it runs and when it returns, "throw" once it has thrown *)
(* (error is the message), "hang" once it is in a loop that has no exit.    *)

CtxOps(g, ops) ==
  [g |-> g, notes |-> 0, timers |-> 0, halt |-> "", error |-> "", ops |-> ops]

Ctx(g) == CtxOps(g, limits.ops)

Throw(c, msg) == [c EXCEPT !.halt = "throw", !.error = msg]
Hang(c) == [c EXCEPT !.halt = "hang"]

notifyGameUpdate(c) == [c EXCEPT !.notes = @ + 1]

\* this.notifyGameUpdate(game.id) as the next statement of a handler: it is
\* run by every context of S that is still running
Notified(S) == {IF c.halt # "" THEN c ELSE notifyGameUpdate(c) : c \in S}

\* handleBotTurn up to its delay: when the awaited player is the automated
\* player, one delayed turn is started (botTurnAfterDelay is what runs then)
handleBotTurn(c) ==
  IF PlayerIndex(c.g.players, c.g.currentPlayer) # 0 /\ IsBot(c.g.currentPlayer)
  THEN [c EXCEPT !.timers = @ + 1]
  ELSE c

NotFolded(p) == ~p.isFolded
Eligible(p) == ~p.isFolded /\ p.isActive

\* game.players.find(p => !p.isFolded) becomes the awaited player
SetFirstNotFolded(c) ==
  LET first == FirstIndex({k \in 1..Len(c.g.players) : NotFolded(c.g.players[k])})
  IN  IF first = 0 THEN c
      ELSE handleBotTurn([c EXCEPT !.g.currentPlayer = c.g.players[first].id])

AllHave(ps, n) == \A i \in 1..Len(ps) : NumberCount(ps[i]) >= n
SomeWaitingForSwap(ps) == \E i \in 1..Len(ps) : ps[i].hasMultiply

---------------------------------------------------------------------------
(* dealCards *)

HasMultiplyCard(p) ==
  (\E k \in 1..Len(p.cards) : IsMultiply(p.cards[k])) \/ p.hasMultiply

PushCard(c, i, card) == [c EXCEPT !.g.players[i].cards = Append(@, card)]

\* the end of dealCards, after the loop over the players: the phase advances
\* when nobody waits for a swap and everybody holds the cards of the phase
DealAdvance(c) ==
  LET ps == c.g.players
      c1 == IF SomeWaitingForSwap(ps) THEN c
            ELSE IF c.g.phase = "dealing1" /\ AllHave(ps, 2)
            THEN [c EXCEPT !.g.phase = "betting1"]
            ELSE IF c.g.phase = "dealing2" /\ AllHave(ps, 4)
            THEN SetFirstNotFolded(
                   [c EXCEPT !.g.phase = "betting2", !.g.currentBet = 0,
                             !.g.players = [i \in 1..Len(ps) |-> [ps[i] EXCEPT !.bet = 0]]])
            ELSE c
  IN  notifyGameUpdate(c1)

\* "Put all cards back in the deck": every hand is emptied and only the
\* multiply cards go back (under the deck; the model's deck keeps no order)
ReturnCards(c) ==
  LET ps == c.g.players
      back == SumSeq([i \in 1..Len(ps) |->
                Cardinality({k \in 1..Len(ps[i].cards) : IsMultiply(ps[i].cards[k])})])
  IN  [c EXCEPT !.g.players = [i \in 1..Len(ps) |-> [ps[i] EXCEPT !.cards = <<>>]],
                !.g.deck.multiply = @ + back]

RECURSIVE DealLoop(_, _, _)
RECURSIVE DealCard(_, _, _, _)

\* what follows the loop: the check of the exact count, the retry, the advance
AfterDeal(c, target) ==
  LET ps == c.g.players
      allPlayersHaveTargetCards ==
        \A i \in 1..Len(ps) : ps[i].hasMultiply \/ NumberCount(ps[i]) = target
  IN  IF allPlayersHaveTargetCards THEN {DealAdvance(c)}
      ELSE IF SomeWaitingForSwap(ps) THEN {c}
      ELSE DealLoop(ReturnCards(c), 1, target)

\* the loop of dealCards from player i on
DealLoop(c, i, target) ==
  IF i > Len(c.g.players) THEN AfterDeal(c, target)
  ELSE IF NumberCount(c.g.players[i]) >= target THEN DealLoop(c, i + 1, target)
  ELSE IF DeckLength(c.g.deck) = 0 THEN {c}
  ELSE UNION {DealCard(c, i, target, kind) : kind \in PopChoices(c.g.deck, c.ops)}

\* one pass of the while loop: player i is given the popped card of a kind
DealCard(c, i, target, kind) ==
  LET card == TopCard(c.g.deck, kind)
      c1 == [c EXCEPT !.g.deck = Pop(@, kind)]
      p == c.g.players[i]
      taken == [PushCard(c1, i, card) EXCEPT !.g.players[i].isSquareRoot = FALSE]
  IN  IF kind = "squareRoot"
      THEN DealLoop([PushCard(c1, i, card) EXCEPT !.g.players[i].isSquareRoot = TRUE],
                    i, target)
      ELSE IF kind = "number" THEN DealLoop(taken, i, target)
      ELSE IF HasMultiplyCard(p) \/ p.isSquareRoot THEN DealLoop(c1, i, target)
      ELSE IF p.operationCards # <<>> /\ ~IsBot(p.id)
      THEN {[c1 EXCEPT !.g.players[i].hasMultiply = TRUE]}
      ELSE IF IsBot(p.id)
      THEN IF p.operationCards = <<>>
           THEN {Throw(PushCard(c1, i, card), "TypeError")}
           ELSE UNION {DealLoop([taken EXCEPT !.g.players[i].operationCards =
                                                RemoveAt(@, randomIndex)], i, target)
                       : randomIndex \in 1..Len(p.operationCards)}
      ELSE DealLoop(taken, i, target)

dealCards(c, targetNumberCards) == DealLoop(c, 1, targetNumberCards)

---------------------------------------------------------------------------
(* Phases and turns *)

IsBettingPhase(ph) == ph \in {"betting1", "betting2", "preflop"}

determineWinners(c) == [c EXCEPT !.g = resolveEquationsAndDistributePot(@)]

endGame(c) == notifyGameUpdate([determineWinners(c) EXCEPT !.g.phase = "ended"])

advanceGamePhase(c) ==
  IF c.g.phase = "preflop"
  THEN Notified(dealCards([c EXCEPT !.g.phase = "dealing1"], 2))
  ELSE IF c.g.phase = "betting1"
  THEN Notified(dealCards([c EXCEPT !.g.phase = "dealing2"], 4))
  ELSE IF c.g.phase = "betting2"
  THEN {notifyGameUpdate(SetFirstNotFolded([c EXCEPT !.g.phase = "equation"]))}
  ELSE IF c.g.phase = "equation" THEN {endGame(c)}
  ELSE {notifyGameUpdate(c)}

\* the index after i in the cyclic order of the players
After(ps, i) == (i % Len(ps)) + 1

\* the first player after position i, cyclically, who is neither folded nor
\* inactive (position i itself comes last)
RECURSIVE NextEligible(_, _)
NextEligible(ps, i) ==
  IF Eligible(ps[After(ps, i)]) THEN After(ps, i) ELSE NextEligible(ps, After(ps, i))

\* activePlayers.every(p => p.bet === game.currentBet), activePlayers given
\* by their indices
AllBetsMatched(g, activePlayers) ==
  \A i \in activePlayers : g.players[i].bet = g.currentBet

moveToNextPlayer(c) ==
  LET ps == c.g.players
      currentPlayerIndex == PlayerIndex(ps, c.g.currentPlayer)
      nextPlayerIndex == NextEligible(ps, currentPlayerIndex)
      hasCompletedRound == nextPlayerIndex <= currentPlayerIndex
  IN  IF currentPlayerIndex = 0 THEN {c}
      ELSE IF \A i \in 1..Len(ps) : ~Eligible(ps[i]) THEN {Hang(c)}
      ELSE IF /\ hasCompletedRound
              /\ AllBetsMatched(c.g, {k \in 1..Len(c.g.players) : Eligible(c.g.players[k])})
              /\ IsBettingPhase(c.g.phase)
      THEN advanceGamePhase(c)
      ELSE {handleBotTurn([c EXCEPT !.g.currentPlayer = ps[nextPlayerIndex].id])}

\* the last player standing takes the pot for both targets
AwardPot(c, winner) ==
  [c EXCEPT !.g.winners = [small |-> <<c.g.players[winner].id>>,
                           big |-> <<c.g.players[winner].id>>],
            !.g.players[winner].chips = @ + c.g.pot,
            !.g.phase = "ended"]

checkPlayerElimination(c, i) ==
  IF c.g.players[i].chips > 0 THEN c
  ELSE LET c1 == [c EXCEPT !.g.players[i].isFolded = TRUE,
                           !.g.players[i].isActive = FALSE]
           winner == FirstIndex({k \in 1..Len(c1.g.players) : Eligible(c1.g.players[k])})
           activePlayers == {k \in 1..Len(c1.g.players) : Eligible(c1.g.players[k])}
       IN  IF Cardinality(activePlayers) <= 1 /\ winner # 0
           THEN notifyGameUpdate(AwardPot(c1, winner))
           ELSE c1

\* Math.min(...activePlayers.map(p => p.chips)) over the players not folded
\* (Infinity, which no amount exceeds, when there is none)
ExceedsLowestChips(g, amount) ==
  \E i \in 1..Len(g.players) : NotFolded(g.players[i]) /\ amount > g.players[i].chips

handleBetFrom(c, i, amount) ==
  LET c1 == [c EXCEPT !.g.players[i].chips = @ - amount,
                      !.g.players[i].bet = @ + amount,
                      !.g.pot = @ + amount,
                      !.g.currentBet = amount]
  IN  Notified(moveToNextPlayer(checkPlayerElimination(c1, i)))

\* handleBet as it would be with the chips taken before the check against
\* the lowest chip count
handleBetChecksLate(c, i, amount) ==
  LET taken == [c EXCEPT !.g.players[i].chips = @ - amount,
                         !.g.players[i].bet = @ + amount,
                         !.g.pot = @ + amount,
                         !.g.currentBet = amount]
  IN  IF amount <= c.g.currentBet THEN {Throw(c, "Bet must be higher than current bet")}
      ELSE IF amount > c.g.players[i].chips THEN {Throw(c, "Not enough chips")}
      ELSE IF ExceedsLowestChips(c.g, amount)
      THEN {Throw(taken, "Cannot bet more than the lowest chip player's amount")}
      ELSE handleBetFrom(c, i, amount)

\* handleBet as it would be without the check against the lowest chip count
handleBetUncapped(c, i, amount) ==
  IF amount <= c.g.currentBet THEN {Throw(c, "Bet must be higher than current bet")}
  ELSE IF amount > c.g.players[i].chips THEN {Throw(c, "Not enough chips")}
  ELSE handleBetFrom(c, i, amount)

handleBet(c, i, amount) ==
  IF amount <= c.g.currentBet THEN {Throw(c, "Bet must be higher than current bet")}
  ELSE IF amount > c.g.players[i].chips THEN {Throw(c, "Not enough chips")}
  ELSE IF ExceedsLowestChips(c.g, amount)
  THEN {Throw(c, "Cannot bet more than the lowest chip player's amount")}
  ELSE handleBetFrom(c, i, amount)

IsSinglePlayerMode(ps) ==
  /\ Len(ps) = 2
  /\ \E k \in 1..2 : IsBot(ps[k].id)
  /\ \E k \in 1..2 : ~IsBot(ps[k].id)

\* handleCall as it would be if the chips called did not reach the pot
handleCallOutsidePot(c, i) ==
  LET callAmount == c.g.currentBet - c.g.players[i].bet
      c1 == [c EXCEPT !.g.players[i].chips = @ - callAmount,
                      !.g.players[i].bet = @ + callAmount]
      c2 == checkPlayerElimination(c1, i)
  IN  IF callAmount > c.g.players[i].chips THEN {Throw(c, "Not enough chips")}
      ELSE IF /\ IsSinglePlayerMode(c2.g.players) /\ ~IsBot(c2.g.players[i].id)
              /\ callAmount > 0 /\ c2.g.phase = "betting1"
      THEN advanceGamePhase(c2)
      ELSE Notified(moveToNextPlayer(c2))

handleCall(c, i) ==
  LET callAmount == c.g.currentBet - c.g.players[i].bet
      c1 == [c EXCEPT !.g.players[i].chips = @ - callAmount,
                      !.g.players[i].bet = @ + callAmount,
                      !.g.pot = @ + callAmount]
      c2 == checkPlayerElimination(c1, i)
  IN  IF callAmount > c.g.players[i].chips THEN {Throw(c, "Not enough chips")}
      ELSE IF /\ IsSinglePlayerMode(c2.g.players) /\ ~IsBot(c2.g.players[i].id)
              /\ callAmount > 0 /\ c2.g.phase = "betting1"
      THEN advanceGamePhase(c2)
      ELSE Notified(moveToNextPlayer(c2))

handleFold(c, i) ==
  LET c1 == [c EXCEPT !.g.players[i].isFolded = TRUE]
      activePlayers == {k \in 1..Len(c1.g.players) : NotFolded(c1.g.players[k])}
      winner == FirstIndex({k \in 1..Len(c1.g.players) : NotFolded(c1.g.players[k])})
  IN  IF Cardinality(activePlayers) <= 1 /\ winner # 0
      THEN {notifyGameUpdate(AwardPot(c1, winner))}
      ELSE Notified(moveToNextPlayer(c1))

handleBetType(c, i, betType) ==
  IF c.g.phase # "equation"
  THEN {Throw(c, "Can only select bet type during equation phase")}
  ELSE {notifyGameUpdate([c EXCEPT !.g.players[i].betType = betType])}

continueDealingToFour(c) ==
  IF c.g.phase \in {"dealing1", "dealing2"} THEN dealCards(c, 4) ELSE {c}

continueDealing(c) ==
  IF c.g.phase = "dealing1" THEN dealCards(c, 2)
  ELSE IF c.g.phase = "dealing2" THEN dealCards(c, 4)
  ELSE {c}

handleSwap(c, i, swapCardType) ==
  LET p == c.g.players[i]
      IsIt(op) == op = swapCardType
      cardIndex == FirstIndex({k \in 1..Len(p.operationCards) : IsIt(p.operationCards[k])})
      c1 == [c EXCEPT !.g.players[i].operationCards = RemoveAt(@, cardIndex),
                      !.g.players[i].cards = Append(@, OperationCard("multiply")),
                      !.g.players[i].hasMultiply = FALSE]
  IN  IF cardIndex = 0 THEN {Throw(c, "Card type not found in player's operation cards")}
      ELSE Notified(continueDealing(c1))

---------------------------------------------------------------------------
(* performAction *)

\* A GameAction.  A field the client left out is "none" (betType,
\* swapCardType) or flagged (hasAmount, hasEquations); an equation left out
\* or empty is <<>>.
Action(type) ==
  [type |-> type, hasAmount |-> FALSE, amount |-> 0, betType |-> "none",
   hasEquations |-> FALSE, equations |-> NoEquations, swapCardType |-> "none"]

Bet(amount) == [Action("bet") EXCEPT !.hasAmount = TRUE, !.amount = amount]
SelectBetType(bt) == [Action("selectBetType") EXCEPT !.betType = bt]
SubmitEquation(small, big) ==
  [Action("submitEquation") EXCEPT
     !.hasEquations = TRUE, !.equations = [small |-> small, big |-> big]]
SwapCard(op) == [Action("swapCard") EXCEPT !.swapCardType = op]

IsBettingAction(type) == type \in {"bet", "call", "fold", "continue"}

\* has the player submitted what the bet type asks for
HasSubmitted(p) ==
  IF p.betType = "both"
  THEN p.submittedEquations.small # <<>> /\ p.submittedEquations.big # <<>>
  ELSE IF p.betType = "small" THEN p.submittedEquations.small # <<>>
  ELSE IF p.betType = "big" THEN p.submittedEquations.big # <<>>
  ELSE FALSE

\* allSubmitted as it would be with some() in the place of every()
SomeSubmitted(ps) ==
  \E i \in 1..Len(ps) : ps[i].isFolded \/ ~ps[i].isActive \/ HasSubmitted(ps[i])

AllSubmitted(ps) ==
  \A i \in 1..Len(ps) : ps[i].isFolded \/ ~ps[i].isActive \/ HasSubmitted(ps[i])

\* case 'submitEquation'
submitEquation(c, i, action) ==
  LET p == c.g.players[i]
      eq == action.equations
      c1 == [c EXCEPT !.g.players[i].submittedEquations = eq]
  IN  IF c.g.phase # "equation"
      THEN {Throw(c, "Equation submission is only allowed during equation phase")}
      ELSE IF ~action.hasEquations THEN {Throw(c, "Equations are required")}
      ELSE IF p.betType = "both" /\ (eq.small = <<>> \/ eq.big = <<>>)
      THEN {Throw(c, "Both small and big equations are required when betting both")}
      ELSE IF p.betType = "small" /\ eq.small = <<>>
      THEN {Throw(c, "Small equation is required when betting small")}
      ELSE IF p.betType = "big" /\ eq.big = <<>>
      THEN {Throw(c, "Big equation is required when betting big")}
      ELSE IF p.betType = "none"
      THEN {Throw(c, "Bet type must be selected before submitting equations")}
      ELSE Notified(IF AllSubmitted(c1.g.players)
                    THEN advanceGamePhase(
                           [c1 EXCEPT !.g = resolveEquationsAndDistributePot(@)])
                    ELSE {c1})

\* case 'noSwap'
noSwap(c, i) ==
  LET Check(d) ==
        IF d.g.phase = "dealing1" /\ AllHave(d.g.players, 2)
        THEN [d EXCEPT !.g.phase = "betting1"]
        ELSE IF d.g.phase = "dealing2" /\ AllHave(d.g.players, 4)
        THEN [d EXCEPT !.g.phase = "betting2", !.g.currentBet = 0,
                       !.g.players = [k \in 1..Len(d.g.players) |->
                                        [d.g.players[k] EXCEPT !.bet = 0]]]
        ELSE d
  IN  Notified({IF d.halt # "" THEN d ELSE Check(d)
                : d \in continueDealing([c EXCEPT !.g.players[i].hasMultiply = FALSE])})

\* case 'continue'
continue(c) ==
  IF ~AllBetsMatched(c.g, {k \in 1..Len(c.g.players) : NotFolded(c.g.players[k])})
  THEN {Throw(c, "Cannot continue until all players have matched the current bet")}
  ELSE advanceGamePhase(c)

\* the switch of performAction
Dispatch(c, i, action) ==
  CASE action.type = "continue" -> continue(c)
    [] action.type = "bet" ->
         IF ~action.hasAmount THEN {Throw(c, "Bet amount is required")}
         ELSE handleBet(c, i, action.amount)
    [] action.type = "call" -> handleCall(c, i)
    [] action.type = "fold" -> handleFold(c, i)
    [] action.type = "selectBetType" ->
         IF action.betType = "none" THEN {Throw(c, "Bet type is required")}
         ELSE handleBetType(c, i, action.betType)
    [] action.type = "submitEquation" -> submitEquation(c, i, action)
    [] action.type = "swapCard" ->
         IF action.swapCardType = "none" THEN {Throw(c, "Swap card type is required")}
         ELSE handleSwap(c, i, action.swapCardType)
    [] action.type = "noSwap" -> noSwap(c, i)
    [] OTHER -> {Throw(c, "Invalid action")}

performAction(c, playerId, action) ==
  LET g == c.g
      i == PlayerIndex(g.players, playerId)
      isBettingPhase == IsBettingPhase(g.phase)
      isEquationPhase == g.phase = "equation"
      isDealingPhase == g.phase \in {"dealing1", "dealing2"}
                        \/ SomeWaitingForSwap(g.players)
  IN  IF i = 0 THEN {Throw(c, "Player not found")}
      ELSE IF /\ playerId # g.currentPlayer /\ g.phase # "equation"
              /\ action.type # "swapCard" /\ g.phase \notin {"dealing1", "dealing2"}
      THEN {Throw(c, "Not your turn")}
      ELSE IF ~isBettingPhase /\ IsBettingAction(action.type)
      THEN {Throw(c, "Betting actions are only allowed during betting phases")}
      ELSE IF isDealingPhase /\ IsBettingAction(action.type)
      THEN {Throw(c, "Betting actions are not allowed during dealing phase")}
      ELSE IF ~isEquationPhase /\ action.type = "selectBetType"
      THEN {Throw(c, "Bet type selection is only allowed during equation phase")}
      ELSE {IF d.halt # "" THEN d ELSE handleBotTurn(d) : d \in Dispatch(c, i, action)}

---------------------------------------------------------------------------
(* The automated player *)

\* the decimal digits of a card value
NumberAtoms(v) == IF v < 10 THEN <<Digits[v + 1]>>
                  ELSE <<Digits[(v \div 10) + 1], Digits[(v % 10) + 1]>>

OperatorAtom(op) ==
  IF op = "multiply" THEN "*" ELSE IF op = "divide" THEN "/"
  ELSE IF op = "add" THEN "+" ELSE "-"

\* generateEquation: the number cards in hand order, the i-th followed by
\* the i-th operation card while there is one
RECURSIVE EquationFrom(_, _, _)
EquationFrom(numbers, ops, i) ==
  IF i > Len(numbers) THEN <<>>
  ELSE NumberAtoms(numbers[i].value)
       \o (IF i <= Len(ops) THEN <<OperatorAtom(ops[i])>> ELSE <<>>)
       \o EquationFrom(numbers, ops, i + 1)

generateEquation(bot) == EquationFrom(NumberCards(bot.cards), bot.operationCards, 1)

\* catch (error) { console.error(...) }
Caught(c) == IF c.halt = "throw" THEN [c EXCEPT !.halt = "", !.error = ""] ELSE c

\* handleBotTurn after its delay, for the automated player it found before
botTurnAfterDelay(c) ==
  LET i == PlayerIndex(c.g.players, BotId)
      bot == c.g.players[i]
      Equations(bt) ==
        SubmitEquation(IF bt \in {"small", "both"} THEN generateEquation(bot) ELSE <<>>,
                       IF bt \in {"big", "both"} THEN generateEquation(bot) ELSE <<>>)
      run ==
        IF c.g.phase = "equation"
        THEN IF bot.betType # "none" THEN {c}
             ELSE UNION {UNION {IF d.halt # "" THEN {d}
                               ELSE performAction(d, BotId, Equations(randomBetType))
                               : d \in handleBetType(c, i, randomBetType)}
                        : randomBetType \in {"small", "big", "both"}}
        ELSE IF IsBettingPhase(c.g.phase)
        THEN IF c.g.currentBet - bot.bet > bot.chips
             THEN handleFold(c, i)
             ELSE handleCall(c, i)
        ELSE {c}
  IN  {Caught(d) : d \in run}

---------------------------------------------------------------------------
(* createGame, joinGame, startGame, handlePlayerDisconnect *)

createGame ==
  [players |-> <<>>, deck |-> createDeck, currentPlayer |-> NoPlayer, pot |-> 0,
   currentBet |-> 0, phase |-> "waiting",
   winners |-> [small |-> <<>>, big |-> <<>>]]

\* the id uuidv4() gives: one no player of the game has
FreshId(ps) ==
  HumanIds[Cardinality({i \in 1..Len(ps) : ~IsBot(ps[i].id)}) + 1]

\* joinGame with the id and the name of the player at index i of the game
\* (a reconnection) or, with i = 0, with no id or one that matches nobody
joinGame(c, i) ==
  IF i # 0 THEN {notifyGameUpdate([c EXCEPT !.g.players[i].isActive = TRUE])}
  ELSE IF c.g.phase \notin {"waiting", "ended"}
  THEN {notifyGameUpdate(
          [c EXCEPT !.g.players = Append(@, Spectator(FreshId(c.g.players)))])}
  ELSE IF c.g.phase # "waiting" THEN {Throw(c, "Game has already started")}
  ELSE {notifyGameUpdate(
          [c EXCEPT !.g.players =
             Append(@, NewPlayer(FreshId(c.g.players), StartingChips))])}

\* the per-player reset of startGame
\* ResetPlayer as it would be if the operation cards of the last round
\* were kept
ResetPlayerKeepsOperators(p) ==
  [p EXCEPT !.cards = <<>>, !.bet = 0,
            !.betType = "none", !.isActive = TRUE, !.isFolded = FALSE,
            !.submittedEquations = NoEquations, !.hasMultiply = FALSE]

ResetPlayer(p) ==
  [p EXCEPT !.cards = <<>>, !.operationCards = StartingOperationCards, !.bet = 0,
            !.betType = "none", !.isActive = TRUE, !.isFolded = FALSE,
            !.submittedEquations = NoEquations, !.hasMultiply = FALSE]

startGame(c) ==
  LET ps == IF Len(c.g.players) = 1
            THEN Append(c.g.players, NewPlayer(BotId, c.g.players[1].chips))
            ELSE c.g.players
      c1 == [c EXCEPT !.g.players = ps, !.g.deck = createDeck, !.g.phase = "preflop"]
  IN  IF ps = <<>> THEN {Throw(c1, "TypeError")}
      ELSE {notifyGameUpdate(
              [c1 EXCEPT !.g.currentPlayer = ps[1].id, !.g.currentBet = 0, !.g.pot = 0,
                         !.g.winners = [small |-> <<>>, big |-> <<>>],
                         !.g.players = [k \in 1..Len(ps) |-> ResetPlayer(ps[k])]])}

handlePlayerDisconnect(c, i) ==
  LET c1 == [c EXCEPT !.g.players[i].isActive = FALSE]
      moved == IF c1.g.currentPlayer = c1.g.players[i].id
               THEN moveToNextPlayer(c1) ELSE {c1}
      EndIfAlone(d) ==
        LET activePlayers == {k \in 1..Len(d.g.players) : Eligible(d.g.players[k])}
            winner == FirstIndex({k \in 1..Len(d.g.players) : Eligible(d.g.players[k])})
        IN  IF Cardinality(activePlayers) <= 1 /\ d.g.phase # "waiting"
            THEN IF winner # 0 THEN AwardPot(d, winner)
                 ELSE [d EXCEPT !.g.phase = "ended"]
            ELSE d
  IN  Notified({IF d.halt # "" THEN d ELSE EndIfAlone(d) : d \in moved})

---------------------------------------------------------------------------
(* The requests the model sends *)

Amounts == {k * 500 : k \in 0..MaxBetUnits}

\* equations of value 1, 2, 20 and 14, and one that divides by zero
Expr1 == <<"1">>
Expr2 == <<"4", "/", "2">>
Expr20 == <<"2", "0">>
Expr14 == <<"2", "+", "3", "*", "4">>
ExprNull == <<"5", "/", "0">>
ExprBlank == <<" ">>
ExprRootSum == <<"sqrt", "4", "+", "5">>
ExprRootAlone == <<"sqrt">>
ExprRootGroup == <<"sqrt", "(", "4", "+", "5", ")">>

BetTypes == {"small", "big", "both"}

\* the requests of a betting or dealing phase, and the malformed ones
TableInputs ==
  {Bet(a) : a \in Amounts}
  \cup {Action(t) : t \in {"bet", "call", "fold", "continue", "noSwap", "raise"}}
  \cup {SwapCard(op) : op \in {"add", "multiply", "none"}}

\* the requests of the equation phase
EquationInputs(types, smalls, bigs) ==
  {SelectBetType(bt) : bt \in types \cup {"none"}}
  \cup {Action("submitEquation")}
  \cup {SubmitEquation(s, b) : s \in smalls \cup {<<>>}, b \in bigs \cup {<<>>}}

ActionInputs(kind) ==
  IF kind = "table" THEN TableInputs
  ELSE IF kind = "checks" THEN {Action("continue"), Action("noSwap")}
  ELSE IF kind = "practice"
  THEN {Bet(StakeUnit), Bet(2 * StakeUnit), Action("call"), Action("continue"),
        Action("noSwap"),
        SwapCard("add"), SelectBetType("small"), SubmitEquation(Expr1, <<>>)}
  ELSE IF kind = "stakes"
  THEN {Bet(k * StakeUnit) : k \in 1..3}
       \cup {Action("call"), Action("continue"), Action("fold")}
  ELSE IF kind = "swaps"
  THEN {Action("continue"), Action("noSwap"), SwapCard("add")}
  ELSE IF kind = "roots"
  THEN EquationInputs({"small"},
         {Expr14, ExprNull, ExprBlank, ExprRootSum, ExprRootAlone, ExprRootGroup}, {})
  ELSE IF kind = "equations"
  THEN EquationInputs(BetTypes, {Expr1, Expr2, ExprNull}, {Expr20, Expr14, ExprNull})
  ELSE TableInputs \cup EquationInputs({"both"}, {Expr1}, {Expr20})

PlayerIds(g) == {g.players[i].id : i \in 1..Len(g.players)}
Stranger == "nobody"

\* A request the client of the player is offering at this point: a betting
\* action of the awaited player, the answer of a player asked to swap, the
\* bet type and the equations of a player still in the round.
InTurn(g, id, action) ==
  LET i == PlayerIndex(g.players, id)
  IN  /\ i # 0
      /\ IF SomeWaitingForSwap(g.players)
         THEN g.players[i].hasMultiply /\ action.type \in {"swapCard", "noSwap"}
         ELSE IF g.phase = "equation"
         THEN /\ Eligible(g.players[i])
              /\ action.type \in {"selectBetType", "submitEquation"}
         ELSE /\ IsBettingPhase(g.phase) /\ id = g.currentPlayer
              /\ IsBettingAction(action.type)

---------------------------------------------------------------------------
(* The state machine: one game of the service *)

\* createDeck, card by card: the array its loops push, the exchange of its
\* shuffle, and the indices Math.floor(Math.random() * (i + 1)) takes when
\* Math.random() returns 0, 1/2 or its largest value
RECURSIVE Pushed(_, _)
Pushed(colors, values) ==
  IF colors = <<>> THEN <<>>
  ELSE [k \in 1..Len(values) |-> NumberCard(values[k], Head(colors))]
       \o Pushed(Tail(colors), values)

UnshuffledDeck ==
  Pushed(Colors, [k \in 1..(MaxCardValue + 1) |-> k - 1])
  \o [k \in 1..(2 * OperationCopies) |->
        IF k % 2 = 1 THEN OperationCard("multiply") ELSE OperationCard("squareRoot")]

\* the exchange as it would be if deck[j] were not given the card of deck[i]
ExchangedOneWay(deck, i, j) ==
  [deck EXCEPT ![i + 1] = deck[j + 1]]

\* [deck[i], deck[j]] = [deck[j], deck[i]], i and j counted from 0
Exchanged(deck, i, j) ==
  [deck EXCEPT ![i + 1] = deck[j + 1], ![j + 1] = deck[i + 1]]

RandomIndices(i) == {0, (i + 1) \div 2, i}

\* shuffling: the array and the loop index of a createDeck that is running
\* games: the registry of sessions (this.games) where several sessions matter
NoShuffle == [deck |-> <<>>, i |-> 0]

\* the registry of sessions, a map from session ids to game states; it is
\* left empty where a single session is followed in the variable game
NoGames == <<>>

\* limits: what the session of a specification is given - the seats, the
\* startGame requests, the operation cards a round turns up, the reported
\* disconnections, the requests sent ("all", "table", "equations") and
\* whether clients also send requests out of turn that the service accepts
Limits(seats, rounds, ops, disconnects, inputs, strays) ==
  [seats |-> seats, rounds |-> rounds, ops |-> ops, disconnects |-> disconnects,
   inputs |-> inputs, strays |-> strays]

\* last: the request served last, "rejected" when it threw
Served(op, c) == IF c.halt = "throw" THEN "rejected" ELSE op

\* the end of a request: the game it leaves, the delayed turns it started
Finish(op, c) ==
  /\ botTimers + c.timers <= MaxBotTimers
  /\ game' = c.g
  /\ botTimers' = botTimers + c.timers
  /\ blocked' = (c.halt = "hang")
  /\ last' = Served(op, c)
  /\ UNCHANGED <<limits, shuffling, games>>

Init ==
  /\ game = createGame
  /\ botTimers = 0
  /\ blocked = FALSE
  /\ round = 0
  /\ drops = 0
  /\ last = "createGame"
  /\ limits = Limits(MaxPlayers, MaxRounds, MaxOpDraws, 0, "all", FALSE)
  /\ shuffling = NoShuffle
  /\ games = NoGames

\* POST /:gameId/join of a new player
JoinGame ==
  /\ ~blocked
  /\ Len(game.players) < limits.seats
  /\ \E c \in joinGame(Ctx(game), 0) : Finish("joinGame", c)
  /\ UNCHANGED <<round, drops>>

\* POST /:gameId/join with the id and name of a player of the game who is
\* not connected
Reconnect ==
  /\ ~blocked
  /\ \E i \in 1..Len(game.players) :
       /\ ~game.players[i].isActive
       /\ \E c \in joinGame(Ctx(game), i) : Finish("reconnect", c)
  /\ UNCHANGED <<round, drops>>

\* POST /:gameId/start
StartGame ==
  /\ ~blocked
  /\ round < limits.rounds
  /\ \E c \in startGame(Ctx(game)) : Finish("startGame", c)
  /\ round' = round + 1
  /\ UNCHANGED drops

\* POST /:gameId/action, or the gameAction socket event
PerformAction ==
  /\ ~blocked
  /\ \E id \in PlayerIds(game) \cup {Stranger}, action \in ActionInputs(limits.inputs) :
       \E c \in performAction(Ctx(game), id, action) :
         /\ limits.strays \/ c.halt = "throw" \/ InTurn(game, id, action)
         /\ Finish(action.type, c)
  /\ UNCHANGED <<round, drops>>

\* the delay of a handleBotTurn elapses
BotTurn ==
  /\ ~blocked
  /\ botTimers > 0
  /\ \E c \in botTurnAfterDelay(Ctx(game)) :
       /\ botTimers - 1 + c.timers <= MaxBotTimers
       /\ game' = c.g
       /\ botTimers' = botTimers - 1 + c.timers
       /\ blocked' = (c.halt = "hang")
       /\ last' = Served("botTurn", c)
  /\ UNCHANGED <<round, drops, limits, shuffling, games>>

\* the transport reports that a connected player of the game has disconnected
Disconnect ==
  /\ ~blocked
  /\ drops < limits.disconnects
  /\ \E i \in 1..Len(game.players) :
       /\ game.players[i].isActive
       /\ \E c \in handlePlayerDisconnect(Ctx(game), i) : Finish("disconnect", c)
  /\ drops' = drops + 1
  /\ UNCHANGED round

\* one session from its creation on, through one round with its dealing and
\* its equations
Next ==
  \/ JoinGame
  \/ Reconnect
  \/ StartGame
  \/ PerformAction
  \/ BotTurn

Spec == Init /\ [][Next]_vars

---------------------------------------------------------------------------
(* The betting table: more seats, a second round and a disconnection, with  *)
(* no operation card in reach and no equation sent                          *)

InitTable ==
  /\ game = createGame
  /\ botTimers = 0
  /\ blocked = FALSE
  /\ round = 0
  /\ drops = 0
  /\ last = "createGame"
  /\ limits = Limits(TablePlayers, TableRounds, 0, MaxDisconnects, "table", FALSE)
  /\ shuffling = NoShuffle
  /\ games = NoGames

NextTable ==
  \/ JoinGame
  \/ Reconnect
  \/ StartGame
  \/ PerformAction
  \/ BotTurn
  \/ Disconnect

SpecTable == InitTable /\ [][NextTable]_vars

---------------------------------------------------------------------------
(* The equation phase of a round of three players: all three have put       *)
(* StakeUnit in, the third has folded since, the two others choose their    *)
(* bet types and submit their equations                                     *)

Only(S) == CHOOSE c \in S : TRUE

\* the game after the requests of a sequence, served one after the other,
\* when no operation card turns up
RECURSIVE Played(_, _)
Played(g, requests) ==
  IF requests = <<>> THEN g
  ELSE Played(Only(performAction(CtxOps(g, 0), requests[1][1], requests[1][2])).g,
              Tail(requests))

Joined(g) == Only(joinGame(CtxOps(g, 0), 0)).g

EquationTable ==
  Played(Only(startGame(CtxOps(Joined(Joined(Joined(createGame))), 0))).g,
         << <<"p1", Bet(StakeUnit)>>, <<"p2", Action("call")>>,
            <<"p3", Action("call")>>, <<"p3", Action("fold")>>,
            <<"p1", Action("continue")>> >>)

InitResolve ==
  /\ game = EquationTable
  /\ botTimers = 0
  /\ blocked = FALSE
  /\ round = 1
  /\ drops = 0
  /\ last = "continue"
  /\ limits = Limits(TablePlayers, 1, 0, 0, "equations", FALSE)
  /\ shuffling = NoShuffle
  /\ games = NoGames

NextResolve == PerformAction

SpecResolve == InitResolve /\ [][NextResolve]_vars

---------------------------------------------------------------------------
(* A session that is started again: the seats and requests of Spec, with a  *)
(* second startGame after a round with its operation cards and equations    *)

InitRestart ==
  /\ game = createGame
  /\ botTimers = 0
  /\ blocked = FALSE
  /\ round = 0
  /\ drops = 0
  /\ last = "createGame"
  /\ limits = Limits(MaxPlayers, TableRounds, MaxOpDraws, 0, "all", FALSE)
  /\ shuffling = NoShuffle
  /\ games = NoGames

SpecRestart == InitRestart /\ [][Next]_vars

---------------------------------------------------------------------------
(* A crowded session: between 2 and CrowdPlayers players have joined before *)
(* the start and only let the round continue, declining every swap, so that *)
(* both dealing passes are reached with every number of players             *)

\* the session after the joins of n players
RECURSIVE Seated(_)
Seated(n) == IF n = 0 THEN createGame ELSE Joined(Seated(n - 1))

InitCrowd ==
  /\ game \in {Seated(n) : n \in 2..CrowdPlayers}
  /\ botTimers = 0
  /\ blocked = FALSE
  /\ round = 0
  /\ drops = 0
  /\ last = "joinGame"
  /\ limits = Limits(CrowdPlayers, 1, 0, 0, "checks", FALSE)
  /\ shuffling = NoShuffle
  /\ games = NoGames

NextCrowd ==
  \/ StartGame
  \/ PerformAction

SpecCrowd == InitCrowd /\ [][NextCrowd]_vars

\* Two seated humans who only check and answer swaps, while up to MaxDealOps
\* operation cards turn up among the cards dealt; every player may send every
\* one of these requests at any time, as any client of the socket can.
InitDeal ==
  /\ game = Seated(MaxPlayers)
  /\ botTimers = 0
  /\ blocked = FALSE
  /\ round = 0
  /\ drops = 0
  /\ last = "joinGame"
  /\ limits = Limits(MaxPlayers, 1, MaxDealOps, 0, "swaps", TRUE)
  /\ shuffling = NoShuffle
  /\ games = NoGames

SpecDeal == InitDeal /\ [][NextCrowd]_vars

\* Two seated humans who bet small amounts, call, check and fold in turn, so
\* that a player can bet again on top of chips already put in.
InitStakes ==
  /\ game = Seated(MaxPlayers)
  /\ botTimers = 0
  /\ blocked = FALSE
  /\ round = 0
  /\ drops = 0
  /\ last = "joinGame"
  /\ limits = Limits(MaxPlayers, 1, 0, 0, "stakes", FALSE)
  /\ shuffling = NoShuffle
  /\ games = NoGames

SpecStakes == InitStakes /\ [][NextCrowd]_vars

\* Single-player practice: one human has joined, the automated player is added
\* by startGame.  Every deferred automated turn eventually runs (its timer
\* elapses), and the human goes on sending requests that are accepted as long
\* as one is possible.
InitPractice ==
  /\ game = Seated(1)
  /\ botTimers = 0
  /\ blocked = FALSE
  /\ round = 0
  /\ drops = 0
  /\ last = "joinGame"
  /\ limits = Limits(1, MaxRounds, MaxOpDraws, 0, "practice", FALSE)
  /\ shuffling = NoShuffle
  /\ games = NoGames

\* performAction called for a request that the human in turn may send and
\* that is accepted
PracticeRequest ==
  /\ ~blocked
  /\ \E id \in PlayerIds(game) \ {BotId}, action \in ActionInputs(limits.inputs) :
       \E c \in performAction(Ctx(game), id, action) :
         /\ c.halt # "throw"
         /\ InTurn(game, id, action)
         /\ Finish(action.type, c)
  /\ UNCHANGED <<round, drops>>

NextPractice ==
  \/ StartGame
  \/ PracticeRequest
  \/ BotTurn

\* the timer of a deferred automated turn elapses: the BotTurn steps, seen by
\* what they leave in last, botTimers and blocked (no other step of
\* NextPractice leaves "botTurn" or "rejected" in last)
BotTimerFires ==
  /\ ~blocked
  /\ botTimers > 0
  /\ last' \in {"botTurn", "rejected"}
  /\ botTimers' \in 0..MaxBotTimers
  /\ blocked' \in BOOLEAN

\* ENABLED <<BotTurn>>_vars, written out: a deferred automated turn is
\* scheduled and its handler leaves a different state
BotTurnEnabled ==
  /\ ~blocked
  /\ botTimers > 0
  /\ \E c \in botTurnAfterDelay(Ctx(game)) :
       /\ botTimers - 1 + c.timers <= MaxBotTimers
       /\ <<c.g, botTimers - 1 + c.timers, c.halt = "hang", Served("botTurn", c)>>
            # <<game, botTimers, blocked, last>>

\* a request of the given type
AcceptedRequest(type) == PracticeRequest /\ last' = type

\* ENABLED <<AcceptedRequest(type)>>_vars, written out
AcceptedRequestEnabled(type) ==
  /\ ~blocked
  /\ \E id \in PlayerIds(game) \ {BotId},
        action \in {a \in ActionInputs(limits.inputs) : a.type = type} :
       \E c \in performAction(Ctx(game), id, action) :
         /\ c.halt # "throw"
         /\ InTurn(game, id, action)
         /\ botTimers + c.timers <= MaxBotTimers
         /\ <<c.g, botTimers + c.timers, c.halt = "hang", type>>
              # <<game, botTimers, blocked, last>>

RequestTypes == {a.type : a \in ActionInputs("practice")}

\* whenever a timer is pending, the deferred turn it runs is a step
PendingTimerCanFire == (~blocked /\ botTimers > 0) => BotTurnEnabled

\* weak fairness of the deferred automated turns (every pending timer
\* elapses and its turn runs) and strong fairness of the human's requests of
\* every type (the human keeps sending each kind of request that is possible
\* again and again; SF with the enabling condition written out)
SpecPractice ==
  /\ InitPractice
  /\ [][NextPractice]_vars
  /\ WF_<<last, botTimers, blocked>>(BotTimerFires)
  /\ \A type \in RequestTypes :
       <>[](~AcceptedRequestEnabled(type)) \/ []<><<AcceptedRequest(type)>>_vars

---------------------------------------------------------------------------
(* The registry of sessions: createGame draws the id of the new session     *)
(* with Math.random() and stores the session under it; players join the     *)
(* registered sessions                                                      *)

GameIds == 0..(MaxGameIds - 1)

\* this.games.set(gameId, game)
Registered(registry, gameId, g) ==
  [id \in DOMAIN registry \cup {gameId} |-> IF id = gameId THEN g ELSE registry[id]]

InitRegistry ==
  /\ game = createGame
  /\ botTimers = 0
  /\ blocked = FALSE
  /\ round = 0
  /\ drops = 0
  /\ last = "none"
  /\ limits = Limits(MaxPlayers, 0, 0, 0, "none", FALSE)
  /\ shuffling = NoShuffle
  /\ games = NoGames

CreateGame ==
  /\ \E gameId \in GameIds : games' = Registered(games, gameId, createGame)
  /\ last' = "createGame"
  /\ UNCHANGED <<game, botTimers, blocked, round, drops, limits, shuffling>>

JoinRegistered ==
  /\ \E gameId \in DOMAIN games :
       /\ Len(games[gameId].players) < limits.seats
       /\ \E c \in joinGame(Ctx(games[gameId]), 0) :
            games' = Registered(games, gameId, c.g)
  /\ last' = "joinGame"
  /\ UNCHANGED <<game, botTimers, blocked, round, drops, limits, shuffling>>

NextRegistry ==
  \/ CreateGame
  \/ JoinRegistered

SpecRegistry == InitRegistry /\ [][NextRegistry]_vars

---------------------------------------------------------------------------
(* The evaluator at work: the equation phase of SpecResolve, with players   *)
(* who bet small and submit sums, quotients and square roots                *)

InitEval ==
  /\ game = EquationTable
  /\ botTimers = 0
  /\ blocked = FALSE
  /\ round = 1
  /\ drops = 0
  /\ last = "continue"
  /\ limits = Limits(TablePlayers, 1, 0, 0, "roots", FALSE)
  /\ shuffling = NoShuffle
  /\ games = NoGames

SpecEval == InitEval /\ [][PerformAction]_vars

---------------------------------------------------------------------------
(* The shuffle of createDeck, one iteration of its loop after the other:    *)
(* Math.random() takes one of three values in the first MaxShuffleDraws     *)
(* iterations and its largest value, which leaves the card in place, after  *)

InitDeck ==
  /\ game = createGame
  /\ botTimers = 0
  /\ blocked = FALSE
  /\ round = 0
  /\ drops = 0
  /\ last = "createGame"
  /\ limits = Limits(0, 0, 0, 0, "none", FALSE)
  /\ shuffling = [deck |-> UnshuffledDeck, i |-> Len(UnshuffledDeck) - 1]
  /\ games = NoGames

ShuffleStep ==
  /\ shuffling.i > 0
  /\ \E j \in IF Len(shuffling.deck) - 1 - shuffling.i < MaxShuffleDraws
              THEN RandomIndices(shuffling.i) ELSE {shuffling.i} :
       shuffling' = [deck |-> Exchanged(shuffling.deck, shuffling.i, j),
                     i |-> shuffling.i - 1]
  /\ UNCHANGED <<game, botTimers, blocked, round, drops, last, limits, games>>

SpecDeck == InitDeck /\ [][ShuffleStep]_vars

---------------------------------------------------------------------------
(* Properties *)

\* every request of the model, from every sender
AnyInput == ActionInputs("table") \cup ActionInputs("equations")
Requesters(g) == PlayerIds(g) \cup {Stranger}

\* the request was refused and left the game as it was
Rejected(c, g) == c.halt = "throw" /\ c.g = g

SumChips(g) == SumSeq([i \in 1..Len(g.players) |-> g.players[i].chips])

TwoHumans(g) ==
  Len(g.players) = 2 /\ \A i \in 1..2 : ~IsBot(g.players[i].id)

\* C1: the phase only moves forward along waiting, preflop, dealing1,
\* betting1, dealing2, betting2, equation, ended; it moves backwards only by
\* a start served while the phase is ended.
C1_PhaseOnlyMovesForward ==
  [][\/ PhaseRank(game'.phase) >= PhaseRank(game.phase)
     \/ game.phase = "ended" /\ last' = "startGame"]_vars

\* C2: in a betting phase every request of a player who is not the awaited
\* player is rejected and changes nothing, unless it is a swapCard or noSwap
\* of a player with a pending multiply swap.
C2_OutOfTurnIsRejected ==
  IsBettingPhase(game.phase) =>
    \A id \in PlayerIds(game) \ {game.currentPlayer}, action \in AnyInput :
      ~(/\ action.type \in {"swapCard", "noSwap"}
        /\ game.players[PlayerIndex(game.players, id)].hasMultiply)
      => \A c \in performAction(Ctx(game), id, action) : Rejected(c, game)

\* C3: a performAction that fails with an error leaves the game (phase,
\* currentPlayer, pot, currentBet, deck, winners, every field of every
\* player) as it was before the call.
C3_FailureChangesNothing ==
  \A id \in Requesters(game), action \in AnyInput :
    \A c \in performAction(Ctx(game), id, action) : c.halt = "throw" => c.g = game

\* a request has just been refused in the middle of a round
C3_Witness ==
  /\ last = "rejected"
  /\ game.phase = "betting2"
  /\ game.pot > 0

\* C4: the resolution that ends the equation phase adds to the players'
\* chips exactly the pot held before it.
C4_ResolutionPaysThePot ==
  [][game.phase = "equation" /\ game'.phase = "ended"
     => SumChips(game') = SumChips(game) + game.pot]_vars

\* C5: swapCard and noSwap of a player with no pending multiply swap are
\* rejected and change nothing, in every phase.
C5_SwapNeedsPendingMultiply ==
  \A id \in PlayerIds(game), action \in AnyInput :
    (/\ action.type \in {"swapCard", "noSwap"}
     /\ ~game.players[PlayerIndex(game.players, id)].hasMultiply)
    => \A c \in performAction(Ctx(game), id, action) : Rejected(c, game)

\* the least chip count among the players neither folded nor inactive is at
\* least the amount
WithinEveryStack(g, amount) ==
  \A k \in 1..Len(g.players) : Eligible(g.players[k]) => amount <= g.players[k].chips

\* C6: a bet is accepted only in a betting phase, from the awaited player,
\* for an amount above currentBet, within the chips of the player and within
\* the least chip count among the non-folded active players; any other bet
\* is rejected and changes nothing.
C6_BetAcceptedOnlyWhenLegal ==
  \A id \in Requesters(game), a \in Amounts :
    \A c \in performAction(Ctx(game), id, Bet(a)) :
      IF c.halt = "throw" THEN c.g = game
      ELSE /\ IsBettingPhase(game.phase)
           /\ id = game.currentPlayer
           /\ a > game.currentBet
           /\ a <= game.players[PlayerIndex(game.players, id)].chips
           /\ WithinEveryStack(game, a)

\* a bet has just been accepted in the second round of a session, at a table
\* where the chip counts differ
C6_Witness ==
  /\ last = "bet"
  /\ round = 2
  /\ game.currentBet > 0
  /\ \E i, k \in 1..Len(game.players) :
       /\ Eligible(game.players[i]) /\ Eligible(game.players[k])
       /\ game.players[i].chips + game.players[i].bet
            # game.players[k].chips + game.players[k].bet

\* the state a bet of x and a call leave two players of c chips in
AfterBetAndCall(d, c, x) ==
  /\ d.halt = ""
  /\ \A i \in 1..2 : d.g.players[i].chips = c - x
  /\ d.g.pot = 2 * x
  /\ d.g.currentBet = x
  /\ d.g.phase \in {"dealing1", "betting1"}
  /\ d.g.phase = "betting1" => \A i \in 1..2 : NumberCount(d.g.players[i]) = 2

\* in a session of two humans just started, with equal chips c: the first
\* player bets x, the second calls (x up to c, c itself only with allIn)
BetThenCall(allIn) ==
  (/\ last = "startGame" /\ game.phase = "preflop" /\ TwoHumans(game)
   /\ game.players[1].chips = game.players[2].chips)
  => \A x \in Amounts :
       (0 < x /\ (x < game.players[1].chips \/ (allIn /\ x = game.players[1].chips)))
       => \A b \in performAction(Ctx(game), game.players[1].id, Bet(x)) :
            /\ b.halt = ""
            /\ \A d \in performAction(Ctx(b.g), game.players[2].id, Action("call")) :
                 AfterBetAndCall(d, game.players[1].chips, x)

\* betting1 is open only with exactly 2 number cards in each hand
BettingOneHasTwoCards ==
  TwoHumans(game) /\ game.phase = "betting1"
  => \A i \in 1..2 : NumberCount(game.players[i]) = 2

\* C7 (as stated): two humans, fresh session, equal chips c; the first bets
\* x with 0 < x <= c and the second calls: each has c - x chips, the pot is
\* 2x, currentBet is x, the phase has left preflop for dealing1, and
\* betting1 is open only with exactly 2 number cards in each hand.
C7_BetAndCall == BetThenCall(TRUE) /\ BettingOneHasTwoCards

\* C7 (amended): the same for 0 < x < c.
C7_BetAndCallBelowAllIn == BetThenCall(FALSE) /\ BettingOneHasTwoCards

\* the second of two humans has just called the bet of 500 of the first
C7_Witness ==
  /\ last = "call"
  /\ TwoHumans(game)
  /\ game.phase \in {"dealing1", "betting1"}
  /\ game.pot = 1000
  /\ game.currentBet = 500
  /\ \A i \in 1..2 : game.players[i].chips = 500

\* C8: a fold of the awaited player in a betting phase that leaves at most
\* one player neither folded nor inactive ends the round in the same step;
\* the player left is the only winner of small and of big and gets the pot.
C8_FoldToLastPlayerEndsRound ==
  (IsBettingPhase(game.phase) /\ PlayerIndex(game.players, game.currentPlayer) # 0)
  => LET i == PlayerIndex(game.players, game.currentPlayer)
         left == {k \in 1..Len(game.players) : k # i /\ Eligible(game.players[k])}
     IN  \A c \in performAction(Ctx(game), game.currentPlayer, Action("fold")) :
           (c.halt = "" /\ Cardinality(left) <= 1)
           => /\ c.g.phase = "ended"
              /\ \A k \in left :
                   /\ c.g.winners = [small |-> <<game.players[k].id>>,
                                     big |-> <<game.players[k].id>>]
                   /\ c.g.players[k].chips = game.players[k].chips + game.pot

\* C9: at resolution, when the winner of small bet both and does not win big
\* and another player wins big, the winner of big gets the whole pot and the
\* winner of small gets nothing.
C9_BothBetForfeitsToBigWinner ==
  [][(game.phase = "equation" /\ game'.phase = "ended")
     => LET ps == game'.players
            sw == SmallWinnerOf(ps, Results(ps))
            bw == BigWinnerOf(ps, Results(ps))
        IN  (sw # 0 /\ bw # 0 /\ sw # bw /\ ps[sw].betType = "both")
            => /\ ps[bw].chips = game.players[bw].chips + game.pot
               /\ ps[sw].chips = game.players[sw].chips]_vars

\* what the bet type of a player asks for is there
Complete(p) ==
  /\ p.betType \in BetTypes
  /\ p.betType \in {"small", "both"} => p.submittedEquations.small # <<>>
  /\ p.betType \in {"big", "both"} => p.submittedEquations.big # <<>>

\* C10: a submitEquation takes the phase from equation to ended exactly when,
\* with it, every player neither folded nor inactive has a bet type and the
\* equations that bet type asks for; otherwise the phase stays equation.
C10_EndsWhenAllSubmitted ==
  [][(game.phase = "equation" /\ last' = "submitEquation")
     => IF \A i \in 1..Len(game'.players) :
             Eligible(game'.players[i]) => Complete(game'.players[i])
        THEN game'.phase = "ended"
        ELSE game'.phase = "equation"]_vars

\* the last of the equations asked for has just been submitted
C10_Witness ==
  /\ last = "submitEquation"
  /\ game.phase = "ended"
  /\ \A i \in 1..Len(game.players) :
       Eligible(game.players[i]) => Complete(game.players[i])
  /\ \E i, k \in 1..Len(game.players) :
       /\ i # k /\ Eligible(game.players[i]) /\ Eligible(game.players[k])
       /\ game.players[i].betType # game.players[k].betType


\* C11: a start takes the session out of waiting only with at least two
\* players: with exactly one player an automated player with the same chips
\* is added first, with no player the request fails and leaves the session
\* in waiting as it was; so every state whose phase is not waiting has at
\* least two players
C11_StartNeedsTwoPlayers ==
  /\ game.phase # "waiting" => Len(game.players) >= 2
  /\ game.phase = "waiting" =>
       \A c \in startGame(Ctx(game)) :
         IF Len(game.players) = 0 THEN Rejected(c, game)
         ELSE /\ c.halt = ""
              /\ Len(c.g.players) >= 2
              /\ Len(game.players) = 1 =>
                   /\ Len(c.g.players) = 2
                   /\ IsBot(c.g.players[2].id)
                   /\ c.g.players[2].chips = game.players[1].chips


\* the state a startGame leaves behind for the round: nothing bet, nothing
\* held but the three starting operators, nothing chosen, nothing submitted
FreshRound(g) ==
  /\ g.pot = 0
  /\ g.currentBet = 0
  /\ g.winners = [small |-> <<>>, big |-> <<>>]
  /\ \A i \in 1..Len(g.players) :
       /\ g.players[i].bet = 0
       /\ g.players[i].cards = <<>>
       /\ g.players[i].operationCards = StartingOperationCards
       /\ g.players[i].betType = "none"
       /\ g.players[i].submittedEquations = NoEquations

SatOut(p) == p.chips = 0 /\ p.isFolded /\ ~p.isActive

\* C13: a player who is out of the play, eliminated at 0 chips or admitted
\* as a spectator, stays folded and inactive through every later request,
\* every later start included; only the reconnection of that player makes
\* the player active again
C13_OutStaysOut ==
  [][\A i \in 1..Len(game.players) :
       (SatOut(game.players[i]) /\ ~(last' = "reconnect" /\ game'.players[i].isActive))
         => (game'.players[i].isFolded /\ ~game'.players[i].isActive)]_vars


\* the players still in the play of a game
EligibleIn(g) == {k \in 1..Len(g.players) : Eligible(g.players[k])}

\* the bets and the call of the model
BetsAndCall == {Bet(a) : a \in Amounts} \cup {Action("call")}

\* C14: after every accepted bet or call, a player whose chips reached 0 by
\* it is folded and inactive before any further request is served, and if
\* at most one player is then left in the play, the phase is ended and the
\* pot, the chips of this request included, has been paid to that player
C14_EliminationEndsThePlay ==
  \A id \in PlayerIds(game), action \in BetsAndCall :
    \A c \in performAction(Ctx(game), id, action) :
      LET i == PlayerIndex(game.players, id)
      IN  (c.halt # "throw" /\ game.players[i].chips > 0 /\ c.g.players[i].chips = 0)
            => /\ c.g.players[i].isFolded
               /\ ~c.g.players[i].isActive
               /\ Cardinality(EligibleIn(c.g)) <= 1 =>
                    /\ c.g.phase = "ended"
                    /\ \A k \in EligibleIn(c.g) :
                         c.g.players[k].chips =
                           game.players[k].chips + game.pot + game.players[i].chips


\* the submitEquation requests of the model that carry equations
Submissions == {a \in AnyInput : a.type = "submitEquation" /\ a.hasEquations}

\* some equation of the player is recorded for the round
HasEquations(p) == p.submittedEquations # NoEquations

\* C15: equations are submitted at most once a round: a submitEquation of a
\* player whose equations are already recorded is rejected and leaves the
\* recorded equations as they are
C15_SubmitOnlyOnce ==
  \A i \in 1..Len(game.players), action \in Submissions :
    HasEquations(game.players[i]) =>
      \A c \in performAction(Ctx(game), game.players[i].id, action) :
        /\ c.halt = "throw"
        /\ c.g.players[i].submittedEquations = game.players[i].submittedEquations

\* C16: selectBetType changes the bet type of a player only while that
\* player has submitted no equation; once the equations are submitted the
\* bet type stays as it is until the next round
C16_BetTypeFixedBySubmission ==
  \A i \in 1..Len(game.players), bt \in BetTypes :
    HasEquations(game.players[i]) =>
      \A c \in performAction(Ctx(game), game.players[i].id, SelectBetType(bt)) :
        c.g.players[i].betType = game.players[i].betType


\* the players tied at the least distance to a target
TiedSmall(ps, results) ==
  LET cand == {i \in ResultIndices(ps) : results[i].small.isNumber}
  IN  {i \in cand : \A j \in cand :
         ~RatLess(Diff(results[j].small, SmallTarget), Diff(results[i].small, SmallTarget))}
TiedBig(ps, results) ==
  LET cand == {i \in ResultIndices(ps) : results[i].big.isNumber}
  IN  {i \in cand : \A j \in cand :
         ~RatLess(Diff(results[j].big, BigTarget), Diff(results[i].big, BigTarget))}

\* the color rank of the lowest-valued and of the highest-valued number card
\* of a hand
LowCardColor(p) ==
  LET cs == NumberCards(p.cards)
      low == MinOf({cs[k].value : k \in 1..Len(cs)})
  IN  MinOf({ColorValue(cs[k].color) : k \in {n \in 1..Len(cs) : cs[n].value = low}})
HighCardColor(p) ==
  LET cs == NumberCards(p.cards)
      high == MaxOf({cs[k].value : k \in 1..Len(cs)})
  IN  MaxOf({ColorValue(cs[k].color) : k \in {n \in 1..Len(cs) : cs[n].value = high}})

\* the id of the winner of a target, "" when there is none
WinnerId(ps, w) == IF w = 0 THEN "" ELSE ps[w].id

\* the player list in another order
Reordered(ps, f) == [k \in 1..Len(ps) |-> ps[f[k]]]

\* C17: at the resolution, among the players tied on the distance to 1 the
\* one whose lowest-valued number card has the lower color rank wins small,
\* among the players tied on the distance to 20 the one whose highest-valued
\* number card has the higher color rank wins big, and the winners are the
\* same for every order of the player list
C17_TieBreakByCardColor ==
  game.phase = "ended" =>
    LET ps == game.players
        results == Results(ps)
        sw == SmallWinnerOf(ps, results)
        bw == BigWinnerOf(ps, results)
    IN  /\ \A i \in TiedSmall(ps, results) :
             (\A j \in TiedSmall(ps, results) \ {i} :
                LowCardColor(ps[i]) < LowCardColor(ps[j])) => sw = i
        /\ \A i \in TiedBig(ps, results) :
             (\A j \in TiedBig(ps, results) \ {i} :
                HighCardColor(ps[i]) > HighCardColor(ps[j])) => bw = i
        /\ \A f \in Permutations(1..Len(ps)) :
             LET qs == Reordered(ps, f)
             IN  /\ WinnerId(qs, SmallWinnerOf(qs, Results(qs))) = WinnerId(ps, sw)
                 /\ WinnerId(qs, BigWinnerOf(qs, Results(qs))) = WinnerId(ps, bw)


\* C18: the pot is never negative, and in every state whose phase is ended,
\* reached by the resolution of the equations or by the payment of the last
\* player standing after a fold or an elimination, the pot is 0
C18_PotEmptyWhenEnded ==
  /\ game.pot >= 0
  /\ game.phase = "ended" => game.pot = 0


\* C19: in every phase other than waiting, the join of a new player is
\* served and appends a spectator with 0 chips, folded and inactive, to the
\* players as they were; it never fails and never adds a player who takes
\* part in the round
C19_LateJoinAddsSpectator ==
  game.phase # "waiting" =>
    \A c \in joinGame(Ctx(game), 0) :
      /\ c.halt = ""
      /\ Len(c.g.players) = Len(game.players) + 1
      /\ SubSeq(c.g.players, 1, Len(game.players)) = game.players
      /\ SatOut(c.g.players[Len(c.g.players)])


\* C20: every served request that changes the game - a join, a start, one
\* performAction with all the phase changes it sets off - sends exactly one
\* gameUpdate to the players of the game
C20_OneUpdatePerRequest ==
  /\ \A c \in joinGame(Ctx(game), 0) : c.halt = "" => c.notes = 1
  /\ \A c \in startGame(Ctx(game)) : c.halt = "" => c.notes = 1
  /\ \A id \in PlayerIds(game), action \in ActionInputs(limits.inputs) :
       \A c \in performAction(Ctx(game), id, action) : c.halt = "" => c.notes = 1


\* JSON.parse(JSON.stringify(game)), the gameUpdate payload of
\* notifyGameUpdate and the body of GET /:gameId: every own property of the
\* game, none left out
Snapshot(g) ==
  [players |-> g.players, deck |-> g.deck, currentPlayer |-> g.currentPlayer,
   pot |-> g.pot, currentBet |-> g.currentBet, phase |-> g.phase,
   winners |-> g.winners]

\* decks with other cards left than a given one
OtherDecks(deck) ==
  {[number |-> n, multiply |-> m, squareRoot |-> s] :
     n \in {deck.number, (deck.number + 1) % (createDeck.number + 1)},
     m \in 0..OperationCopies, s \in 0..OperationCopies} \ {deck}

\* C21: no snapshot sent to the clients reveals the deck that is left: two
\* games that differ only in their decks have the same snapshot
C21_SnapshotHidesDeck ==
  \A deck \in OtherDecks(game.deck) :
    Snapshot([game EXCEPT !.deck = deck]) = Snapshot(game)


\* how often a card occurs in an array
Copies(deck, card) == Cardinality({k \in 1..Len(deck) : deck[k] = card})

\* the fixed 52 cards: each value in each color once, the two operations
\* OperationCopies times each
IsFullDeck(deck) ==
  /\ Len(deck) = (MaxCardValue + 1) * Len(Colors) + 2 * OperationCopies
  /\ \A v \in 0..MaxCardValue, k \in 1..Len(Colors) :
       Copies(deck, NumberCard(v, Colors[k])) = 1
  /\ Copies(deck, OperationCard("multiply")) = OperationCopies
  /\ Copies(deck, OperationCard("squareRoot")) = OperationCopies

\* the cards of an array by kind, as the game keeps its deck
Kinds(deck) ==
  [number |-> Cardinality({k \in 1..Len(deck) : IsNumber(deck[k])}),
   multiply |-> Copies(deck, OperationCard("multiply")),
   squareRoot |-> Copies(deck, OperationCard("squareRoot"))]

C23_DealingNeverRunsDry ==
  game.phase \in {"dealing1", "dealing2"} =>
    /\ SomeWaitingForSwap(game.players)
    /\ DeckLength(game.deck) > 0


\* C24: the evaluator gives the value by the usual precedence or a failure
\* and never throws: 2+3*4 is 14, sqrt4+5 is 7, 5/0, the empty expression
\* and a sqrt without operand fail, and a sqrt followed by a parenthesised
\* expression is the square root of that expression (sqrt(4+5) is 3)
C24_EvaluatorValues ==
  /\ safeEval(<<>>) = Null
  /\ \A i \in 1..Len(game.players) :
       LET expr == game.players[i].submittedEquations.small
       IN  /\ expr = Expr14 => safeEval(expr) = Number(RatInt(14))
           /\ expr = ExprRootSum => safeEval(expr) = Number(RatInt(7))
           /\ expr \in {ExprNull, ExprBlank, ExprRootAlone} => safeEval(expr) = Null
           /\ expr = ExprRootGroup => safeEval(expr) = Number(RatInt(3))


\* C25: in every state whose phase is preflop, betting1 or betting2, the
\* awaited player is a player of the session who is neither folded nor
\* inactive; so a player who folds or is eliminated as the last to act in a
\* betting round is not awaited in the next betting phase
C25_AwaitedPlayerCanAct ==
  IsBettingPhase(game.phase) =>
    \E i \in 1..Len(game.players) :
      /\ game.players[i].id = game.currentPlayer
      /\ Eligible(game.players[i])


\* the id of the first player in list order who is neither folded nor
\* inactive, NoPlayer when there is none
FirstEligibleId(g) ==
  IF EligibleIn(g) = {} THEN NoPlayer ELSE g.players[MinOf(EligibleIn(g))].id

\* C26: when a dealing pass completes and the phase becomes betting1 or
\* betting2, the awaited player is the first player in list order who is
\* neither folded nor inactive
C26_BettingOpensWithFirstPlayer ==
  [][(game'.phase \in {"betting1", "betting2"} /\ game'.phase # game.phase)
       => game'.currentPlayer = FirstEligibleId(game')]_vars


\* C27: on entry to each betting phase - preflop at the start, betting1
\* after the first dealing pass, betting2 after the second - the current
\* bet and the bet of every player are 0, while the pot keeps the chips
\* collected in the earlier phases
C27_BettingOpensWithNoBets ==
  [][(IsBettingPhase(game'.phase) /\ game'.phase # game.phase)
       => /\ game'.currentBet = 0
          /\ \A i \in 1..Len(game'.players) : game'.players[i].bet = 0
          /\ game'.phase # "preflop" =>
               game'.pot = game.pot + SumChips(game) - SumChips(game')]_vars


HoldsOperation(p, op) ==
  \E k \in 1..Len(p.cards) : p.cards[k].type = "operation" /\ p.cards[k].operation = op

C29_PendingSwapBlocksDealing ==
  \A a \in 1..Len(game.players) :
    (game.players[a].hasMultiply /\ ~IsBot(game.players[a].id)) =>
      /\ game.phase \in {"dealing1", "dealing2"}
      /\ \A id \in PlayerIds(game) \ {game.players[a].id},
            action \in ActionInputs(limits.inputs) :
           \A d \in performAction(Ctx(game), id, action) :
             /\ d.g.deck = game.deck
             /\ d.g.phase = game.phase


\* C30: when a request pops a multiply card during dealing while all players
\* are humans, none of them has a swap pending and none holds a multiply card
\* afterwards, the card was drawn by a player who neither held nor was pending
\* one, so dealing has halted with that player's swap pending; the card is
\* not discarded, whether or not a squareRoot card was drawn just before it
C30_MultiplyDrawHaltsDealing ==
  [][(/\ round' = round
      /\ game'.deck.multiply < game.deck.multiply
      /\ \A i \in 1..Len(game.players) :
           ~IsBot(game.players[i].id) /\ ~game.players[i].hasMultiply
      /\ \A i \in 1..Len(game'.players) :
           ~HoldsOperation(game'.players[i], "multiply"))
     => SomeWaitingForSwap(game'.players)]_vars


\* C31: a dealing pass draws cards only for players who are active and have
\* not folded: within a round, no request changes the hand of a player who
\* was folded or inactive (folded earlier, eliminated, spectator) when it
\* was made, so no card leaves the deck on that player's behalf
C31_DealingSkipsThoseWhoAreOut ==
  [][round' = round =>
       \A i \in 1..Len(game.players) :
         (/\ ~Eligible(game.players[i])
          /\ i <= Len(game'.players)
          /\ game'.players[i].id = game.players[i].id)
         => game'.players[i].cards = game.players[i].cards]_vars


BotAwaited(g) ==
  \/ IsBettingPhase(g.phase) /\ g.currentPlayer = BotId
  \/ g.phase = "equation"

\* C32: a deferred automated action acts only while the automated player is
\* the awaited player: when one is still scheduled in a state where the
\* automated player is not awaited (the turn is another player's, or the
\* phase has moved on), it leaves the session as it is when its delay elapses
C32_StaleBotTurnDoesNothing ==
  (botTimers > 0 /\ ~BotAwaited(game)) =>
    \A d \in botTurnAfterDelay(Ctx(game)) : d.g = game

\* C33: in single-player practice mode, when the human keeps sending accepted
\* requests and every scheduled automated turn runs, a round that has started
\* eventually reaches ended
C33_PracticeRoundEnds ==
  (game.phase = "preflop") ~> (game.phase = "ended")


\* C34: a betting phase is not completed by a bet or call before every player
\* who is neither folded nor inactive has been awaited in it: when a betting
\* phase has just opened with at least two such players, the first bet or
\* call of the awaited player leaves the phase open unless it ends the round
\* (in particular betting1 stays open after a bet and a call in preflop)
C34_BettingNeedsEveryPlayer ==
  [][(/\ game'.phase # game.phase
      /\ IsBettingPhase(game'.phase)
      /\ Cardinality(EligibleIn(game')) >= 2)
     => \A action \in {a \in ActionInputs(limits.inputs) : a.type \in {"bet", "call"}} :
          \A c \in performAction(Ctx(game'), game'.currentPlayer, action) :
            c.halt = "throw" \/ c.g.phase \in {game'.phase, "ended"}]_vars


\* C35: in every reachable state no player's bet exceeds currentBet (so the
\* amount of a call, currentBet minus the caller's bet, is never negative and
\* a call never takes chips out of the pot)
C35_NoBetAboveCurrentBet ==
  \A i \in 1..Len(game.players) : game.players[i].bet <= game.currentBet


\* C36: in every reachable state of a betting phase the awaited player can
\* afford to call: currentBet minus that player's bet is at most that
\* player's chips
C36_AwaitedPlayerCanCall ==
  IsBettingPhase(game.phase) =>
    \A i \in 1..Len(game.players) :
      game.players[i].id = game.currentPlayer =>
        game.currentBet - game.players[i].bet <= game.players[i].chips


C36_Witness ==
  /\ IsBettingPhase(game.phase)
  /\ last = "bet"
  /\ \E i \in EligibleIn(game) :
       /\ game.players[i].id = game.currentPlayer
       /\ game.players[i].chips < StartingChips
       /\ game.currentBet - game.players[i].bet = game.players[i].chips
       /\ game.players[i].chips > 0
       /\ \E k \in EligibleIn(game) :
            game.players[k].chips + game.players[k].bet > StartingChips


\* a step that serves an accepted bet or call which does not end the round
BetOrCallServed == last' \in {"bet", "call"} /\ game'.phase # "ended"

ChipsConserved == SumChips(game') + game'.pot = SumChips(game) + game.pot

\* all players but one keep their chips and, if keepBets, their bet
OthersUntouched(keepBets) ==
  /\ Len(game'.players) = Len(game.players)
  /\ \E i \in 1..Len(game.players) :
       \A k \in 1..Len(game.players) \ {i} :
         /\ game'.players[k].chips = game.players[k].chips
         /\ keepBets => game'.players[k].bet = game.players[k].bet

\* the request has closed dealing2: betting2 opens and every bet is reset
OpensBettingTwo ==
  /\ game.phase # "betting2"
  /\ game'.phase = "betting2"
  /\ \A k \in 1..Len(game'.players) : game'.players[k].bet = 0

\* C37 (as stated): every accepted bet or call that does not end the round
\* leaves the sum of all chips and the pot as it was, and leaves the chips
\* and the bet of every player but the acting one unchanged
C37_BetAndCallTouchOnlyTheActor ==
  [][BetOrCallServed => ChipsConserved /\ OthersUntouched(TRUE)]_vars

\* C37 (amended): the same, except that the bets of the other players are
\* reset to 0 when the bet or call closes betting1 and betting2 opens
C37_BetAndCallTouchOnlyTheActorsChips ==
  [][BetOrCallServed =>
       /\ ChipsConserved
       /\ OthersUntouched(FALSE)
       /\ OthersUntouched(TRUE) \/ OpensBettingTwo]_vars


\* a call has just closed betting1 with chips in the pot, and betting2 is open
C37_Witness ==
  /\ last = "call"
  /\ game.phase = "betting2"
  /\ game.pot > 0
  /\ \A k \in 1..Len(game.players) :
       game.players[k].bet = 0 /\ game.players[k].chips < StartingChips


\* what a resolution decides: every player's chips, the pot and the winners
Payout(g) == <<[i \in 1..Len(g.players) |-> g.players[i].chips], g.pot, g.winners>>

\* the state that the last submitEquation resolves: the state it leaves, with
\* the chips, the pot, the winners and the phase of the state it was sent in
BeforePayout(g, h) ==
  [h EXCEPT !.phase = g.phase, !.pot = g.pot, !.winners = g.winners,
            !.players = [i \in 1..Len(h.players) |->
                           [h.players[i] EXCEPT !.chips = g.players[i].chips]]]

ResolvedTwiceAsOnce(g) ==
  /\ Payout(resolveEquationsAndDistributePot(resolveEquationsAndDistributePot(g)))
       = Payout(resolveEquationsAndDistributePot(g))

\* C38: the last submitEquation resolves twice (directly, and again through
\* the phase advance into ended); the chips, the pot and the winners it
\* leaves are those of resolving once
C38_ResolutionIsIdempotent ==
  [][(game.phase = "equation" /\ game'.phase = "ended" /\ last' = "submitEquation")
     => /\ Payout(game') = Payout(resolveEquationsAndDistributePot(BeforePayout(game, game')))
        /\ ResolvedTwiceAsOnce(BeforePayout(game, game'))]_vars

C38_Witness ==
  /\ game.phase = "ended"
  /\ last = "submitEquation"
  /\ game.pot = 0
  /\ game.winners.small # <<>>
  /\ game.winners.big # <<>>
  /\ game.winners.small # game.winners.big
  /\ \E i \in 1..Len(game.players) : game.players[i].chips > StartingChips


\* C39: turn advancement always terminates: no fold, bet, call or disconnect
\* notification leaves the search for the next player who is neither folded
\* nor inactive running for ever
C39_TurnAdvanceTerminates == ~blocked


\* C40: createGame never replaces or alters an existing session: it adds one
\* session to the registry, under an id that was not in use, and every
\* session created before is still there with its state unchanged
C40_CreateKeepsOtherSessions ==
  [][last' = "createGame" =>
       /\ Cardinality(DOMAIN games') = Cardinality(DOMAIN games) + 1
       /\ \A id \in DOMAIN games : id \in DOMAIN games' /\ games'[id] = games[id]]_vars

====
